---- MODULE Spec2Model ----
(***************************************************************************)
(* Version resolution and scope merge of superchain/superchain.go.         *)
(*                                                                         *)
(* A Go string is a sequence of one-character strings, so that HasPrefix,  *)
(* TrimPrefix, "v" + key and the semver parse act on the characters.       *)
(* An Address is a natural number; 0 is the all-zero address.  An          *)
(* AddressSet (map[string]Address) is a function from a finite set of      *)
(* strings to addresses.                                                   *)
(***************************************************************************)
EXTENDS Integers, Sequences, FiniteSets, TLC

\* ------------------------------------------------------------------ bounds
\* Stored versions have major 1..MaxMajor, targets have major 0..MaxMajor.
MaxMajor == 3
\* An AddressSet of the single-set specification holds at most MaxEntries keys.
MaxEntries == 3
\* Addresses are 0..MaxAddr.
MaxAddr == 2

\* ------------------------------------------------------------------ strings
Digits == <<"0", "1", "2", "3", "4", "5", "6", "7", "8", "9">>

DigitChars == {Digits[i] : i \in 1..Len(Digits)}

IsDigit(ch) == ch \in DigitChars

\* The number a digit stands for.
DigitVal == [ch \in DigitChars |-> (CHOOSE i \in 1..Len(Digits) : Digits[i] = ch) - 1]

\* The text MAJOR.MINOR.PATCH, without the "v".
Ver(maj, min, pat) == <<Digits[maj + 1], ".", Digits[min + 1], ".", Digits[pat + 1]>>

EmptyString == << >>

\* strings.HasPrefix(s, "v")
HasPrefixV(s) == Len(s) >= 1 /\ s[1] = "v"

\* strings.TrimPrefix(s, "v")
TrimPrefixV(s) == IF HasPrefixV(s) THEN Tail(s) ELSE s

canonicalizeSemver(version) ==
    IF ~HasPrefixV(version) THEN <<"v">> \o version ELSE version

\* ------------------------------------------------------------------ semver
\* golang.org/x/mod/semver on the strings of the model (one digit per field).
IsValid(v) ==
    /\ Len(v) = 6
    /\ v[1] = "v"
    /\ IsDigit(v[2]) /\ v[3] = "." /\ IsDigit(v[4]) /\ v[5] = "." /\ IsDigit(v[6])

compareInt(x, y) == IF x = y THEN 0 ELSE IF x < y THEN -1 ELSE 1

Compare(v, w) ==
    IF ~IsValid(v) THEN (IF ~IsValid(w) THEN 0 ELSE -1)
    ELSE IF ~IsValid(w) THEN 1
    ELSE IF v[2] # w[2] THEN compareInt(DigitVal[v[2]], DigitVal[w[2]])
    ELSE IF v[4] # w[4] THEN compareInt(DigitVal[v[4]], DigitVal[w[4]])
    ELSE compareInt(DigitVal[v[6]], DigitVal[w[6]])

\* ------------------------------------------------------------------ AddressSet
ZeroAddress == 0

Addresses == 0..MaxAddr

\* VersionedContract{}
ZeroContract == [Version |-> EmptyString, Address |-> ZeroAddress]

EmptySet == [k \in {} |-> ZeroAddress]

\* Get without lines 113-115.
GetNoPrefixing(a, key) ==
    LET k == key
    IN  IF TrimPrefixV(k) \in DOMAIN a THEN a[TrimPrefixV(k)]
        ELSE IF k \in DOMAIN a THEN a[k] ELSE ZeroAddress

Get(a, key) ==
    LET k == IF ~HasPrefixV(key) THEN <<"v">> \o key ELSE key
    IN  IF TrimPrefixV(k) \in DOMAIN a THEN a[TrimPrefixV(k)]
        ELSE IF k \in DOMAIN a THEN a[k] ELSE ZeroAddress

\* The number of elements of the sorted sequence keys that x goes after.
RECURSIVE Rank(_, _, _)
Rank(x, keys, i) ==
    IF i > Len(keys) \/ Compare(x, keys[i]) < 0 THEN i - 1 ELSE Rank(x, keys, i + 1)

InsertSorted(x, keys) ==
    LET n == Rank(x, keys, 1)
    IN  SubSeq(keys, 1, n) \o <<x>> \o SubSeq(keys, n + 1, Len(keys))

\* Lines 125-129: the keys, canonicalized, then semver.Sort: ascending by
\* Compare.  Keys whose canonical forms compare equal are the same string
\* after canonicalization, so the order maps.Keys gives cannot be seen in
\* the result.
RECURSIVE SortKeys(_)
SortKeys(S) ==
    IF S = {} THEN << >>
    ELSE LET k == CHOOSE x \in S : TRUE
         IN  InsertSorted(canonicalizeSemver(k), SortKeys(S \ {k}))

Versions(a) == SortKeys(DOMAIN a)

\* ------------------------------------------------------------------ resolve
Nil == "nil"
ErrNoImplementations == "no implementations found"
ErrCannotResolve == "cannot resolve semver"

\* if res > 0
QualifiesStrictly(res) == res > 0

\* line 175: if res >= 0
Qualifies(res) == res >= 0

\* the loop without the break
NeverBreak(res) == FALSE

\* the loop leaving at the first version that is >= the target
AlwaysBreak(res) == TRUE

\* lines 180-182: if res == 0 { break }
ShouldBreak(res) == res = 0

\* lines 173-184: the loop over the sorted keys, from index i on.
RECURSIVE scan(_, _, _, _, _)
scan(set_, keys, version_, i, out_) ==
    IF i > Len(keys) THEN out_
    ELSE LET k == keys[i]
             res == Compare(k, version_)
         IN  IF Qualifies(res)
             THEN LET o == [Version |-> k, Address |-> Get(set_, k)]
                  IN  IF ShouldBreak(res) THEN o
                      ELSE scan(set_, keys, version_, i + 1, o)
             ELSE scan(set_, keys, version_, i + 1, out_)

\* resolve without the check of line 169
NeverEmptyKeys(keys) == FALSE

\* line 169: if len(keys) == 0
IsEmptyKeys(keys) == Len(keys) = 0

resolve(set_, version_) ==
    LET v == canonicalizeSemver(version_)
        keys == Versions(set_)
    IN  IF IsEmptyKeys(keys)
        THEN [out |-> ZeroContract, err |-> ErrNoImplementations]
        ELSE LET o == scan(set_, keys, v, 1, ZeroContract)
             IN  IF o = ZeroContract
                 THEN [out |-> o, err |-> ErrCannotResolve]
                 ELSE [out |-> o, err |-> Nil]

\* ------------------------------------------------------------------ bundles
\* Resolve going through the fields with L2OutputOracle and OptimismPortal
\* exchanged.
RolesExchanged == <<"L1CrossDomainMessenger", "L1ERC721Bridge", "L1StandardBridge",
                    "OptimismPortal", "OptimismMintableERC20Factory", "L2OutputOracle",
                    "SystemConfig">>

\* The fields of ContractImplementations, ImplementationList and
\* ContractVersions, in declaration order, which is the order of Resolve.
Roles == <<"L1CrossDomainMessenger", "L1ERC721Bridge", "L1StandardBridge",
           "L2OutputOracle", "OptimismMintableERC20Factory", "OptimismPortal",
           "SystemConfig">>

RoleSet == {Roles[i] : i \in 1..Len(Roles)}

\* var implementations ImplementationList
ZeroImplementations == [r \in RoleSet |-> ZeroContract]

NoError == << >>

\* fmt.Errorf("<role>: %w", err)
Wrap(role, cause) == <<role, cause>>

\* lines 138-159 from the i-th field on.  calls is the sequence of roles that
\* resolve has been called for.
RECURSIVE ResolveFrom(_, _, _, _, _)
ResolveFrom(c_, versions_, i, impl, calls) ==
    IF i > Len(Roles) THEN [implementations |-> impl, err |-> NoError, calls |-> calls]
    ELSE LET r == Roles[i]
             res == resolve(c_[r], versions_[r])
             impl2 == [impl EXCEPT ![r] = res.out]
             calls2 == Append(calls, r)
         IN  IF res.err # Nil
             THEN [implementations |-> impl2, err |-> Wrap(r, res.err), calls |-> calls2]
             ELSE ResolveFrom(c_, versions_, i + 1, impl2, calls2)

Resolve(c_, versions_) == ResolveFrom(c_, versions_, 1, ZeroImplementations, << >>)

\* a copy that keeps the destination's value of a key both maps hold
copyKeepingDst(dst, src) ==
    [k \in DOMAIN dst \cup DOMAIN src |-> IF k \in DOMAIN dst THEN dst[k] ELSE src[k]]

\* maps.Copy(dst, src): for k, v := range src { dst[k] = v }
copySemverMap(dst, src) ==
    [k \in DOMAIN dst \cup DOMAIN src |-> IF k \in DOMAIN src THEN src[k] ELSE dst[k]]

\* lines 301-307: one copySemverMap per field, into the maps c refers to.
Merge(c_, other_) == [r \in RoleSet |-> copySemverMap(c_[r], other_[r])]

\* A Go map is a reference.  The maps the fields of c refer to are the cells
\* "c"; the maps Copy allocates are the cells "store".  A field of the copy
\* names the cell it refers to.
NilRefs == [r \in RoleSet |-> "nil"]

\* maps.Clone(m): a new map with the entries of m.
Clone(m) == [k \in DOMAIN m |-> m[k]]

\* a copy of the struct alone: the fields still refer to the maps of c
CopyOfStruct(c_) ==
    [refs |-> [r \in RoleSet |-> "c"], store |-> [r \in RoleSet |-> EmptySet]]

\* lines 311-321: every field of the result refers to a clone.
Copy(c_) ==
    [refs |-> [r \in RoleSet |-> "store"], store |-> [r \in RoleSet |-> Clone(c_[r])]]

\* The entries seen through the fields of the copy.
Deref(refs, c_, store_) ==
    [r \in RoleSet |-> IF refs[r] = "store" THEN store_[r] ELSE c_[r]]

\* lines 301-307 with the copy as receiver: copySemverMap writes the map
\* each field refers to, and only that map.
MergeInto(refs, c_, store_, other_) ==
    [c |-> [r \in RoleSet |->
              IF refs[r] = "c" THEN copySemverMap(c_[r], other_[r]) ELSE c_[r]],
     store |-> [r \in RoleSet |->
              IF refs[r] = "store" THEN copySemverMap(store_[r], other_[r]) ELSE store_[r]]]

\* ------------------------------------------------------------------ inputs
V(s) == <<"v">> \o s

\* Versions a single set stores, and the targets it is asked for.
StoredCores == {Ver(m, 0, 0) : m \in 1..MaxMajor}
TargetCores == StoredCores \cup {Ver(m, 5, 0) : m \in 0..MaxMajor}

\* A key is stored with or without the "v".
StoredKeys == StoredCores \cup {V(s) : s \in StoredCores}
Targets == TargetCores \cup {V(s) : s \in TargetCores}

AddressSets ==
    UNION {[D -> Addresses] : D \in {K \in SUBSET StoredKeys : Cardinality(K) <= MaxEntries}}

\* Bundles: every role holds the same set of at most one entry, but for at
\* most one role, which holds any set of at most two entries; a network
\* bundle is empty but for at most one role; a ContractVersions asks the
\* same version of every role, but for at most one role.
BundleKeys == {Ver(1, 0, 0), V(Ver(1, 0, 0)), V(Ver(2, 0, 0))}
GlobalSets == UNION {[D -> {1}] : D \in {K \in SUBSET BundleKeys : Cardinality(K) <= 1}}
DeviatingSets == UNION {[D -> {1}] : D \in {K \in SUBSET BundleKeys : Cardinality(K) <= 2}}
NetworkSets == UNION {[D -> 1..MaxAddr] : D \in {K \in SUBSET BundleKeys : Cardinality(K) <= 1}}
BundleTargets == {Ver(1, 0, 0), V(Ver(2, 0, 0))}

OneOff(S, T) == {[r \in RoleSet |-> IF r = d THEN y ELSE b] : b \in S, d \in RoleSet, y \in T}

GlobalBundles == OneOff(GlobalSets, DeviatingSets)
NetworkBundles == OneOff({EmptySet}, NetworkSets)
TargetBundles == OneOff(BundleTargets, BundleTargets)

EmptyBundle == [r \in RoleSet |-> EmptySet]
NoVersions == [r \in RoleSet |-> EmptyString]

\* ------------------------------------------------------------------ state
VARIABLES
    op,               \* the last call
    set,              \* the AddressSet resolve and Get are called on
    version,          \* the version resolve and Get are asked for
    out, err,         \* resolve's results
    got, gotV,        \* Get(version) and Get("v" + version)
    c,                \* the ContractImplementations (globals of line 231)
    old,              \* c before the last Merge
    other,            \* the argument of the last Merge
    merged,           \* whether the network bundle has been merged (line 254)
    versions,         \* the ContractVersions (SuperchainSemver of line 406)
    implementations,  \* Resolve's first result
    rerr,             \* Resolve's error
    calls,            \* the roles Resolve called resolve for
    copied,           \* whether c.Copy() has been called
    copyRef,          \* the cell each field of the copy refers to
    store             \* the maps Copy allocated

setVars == <<set, version, out, err, got, gotV>>
bundleVars == <<c, old, other, merged, versions, implementations, rerr, calls>>
copyVars == <<copied, copyRef, store>>
vars == <<op, set, version, out, err, got, gotV,
          c, old, other, merged, versions, implementations, rerr, calls,
          copied, copyRef, store>>

NoCopy == copied = FALSE /\ copyRef = NilRefs /\ store = EmptyBundle

NoSetCall ==
    /\ out = ZeroContract /\ err = Nil
    /\ got = ZeroAddress /\ gotV = ZeroAddress

NoBundleCall ==
    /\ implementations = ZeroImplementations /\ rerr = NoError /\ calls = << >>

\* ------------------------------------------------------------------ one AddressSet
SetInit ==
    /\ op = "init"
    /\ set \in AddressSets
    /\ version \in Targets
    /\ NoSetCall
    /\ c = EmptyBundle /\ old = EmptyBundle /\ other = EmptyBundle /\ merged = FALSE
    /\ versions = NoVersions
    /\ NoBundleCall
    /\ NoCopy

CallResolve ==
    \E res \in {resolve(set, version)} :
        /\ op' = "resolve"
        /\ out' = res.out
        /\ err' = res.err
        /\ got' = ZeroAddress /\ gotV' = ZeroAddress
        /\ UNCHANGED <<set, version, c, old, other, merged, versions, implementations, rerr, calls>>
        /\ UNCHANGED copyVars

\* Get of a version written without the "v", and of the same with the "v".
CallGet ==
    /\ ~HasPrefixV(version)
    /\ op' = "Get"
    /\ got' = Get(set, version)
    /\ gotV' = Get(set, V(version))
    /\ out' = ZeroContract /\ err' = Nil
    /\ UNCHANGED <<set, version, c, old, other, merged, versions, implementations, rerr, calls>>
    /\ UNCHANGED copyVars

SetNext == CallResolve \/ CallGet

SetSpec == SetInit /\ [][SetNext]_vars

\* ------------------------------------------------------------------ bundles
\* newContractImplementations: the globals after setAddressSetsIfNil (line
\* 239), then at most one Merge of the network's bundle (line 254); the
\* result is resolved against the ContractVersions read at start-up.
Init ==
    /\ op = "init"
    /\ c \in GlobalBundles
    /\ versions \in TargetBundles
    /\ old = EmptyBundle /\ other = EmptyBundle /\ merged = FALSE
    /\ NoBundleCall
    /\ set = EmptySet /\ version = EmptyString
    /\ NoSetCall
    /\ NoCopy

CallMerge ==
    /\ ~merged
    /\ \E impls \in NetworkBundles :
        /\ op' = "Merge"
        /\ old' = c
        /\ other' = impls
        /\ c' = Merge(c, impls)
        /\ merged' = TRUE
        /\ implementations' = ZeroImplementations
        /\ rerr' = NoError /\ calls' = << >>
        /\ UNCHANGED versions
        /\ UNCHANGED setVars
        /\ UNCHANGED copyVars

CallResolveBundle ==
    \E res \in {Resolve(c, versions)} :
        /\ op' = "Resolve"
        /\ implementations' = res.implementations
        /\ rerr' = res.err
        /\ calls' = res.calls
        /\ UNCHANGED <<c, old, other, merged, versions>>
        /\ UNCHANGED setVars
        /\ UNCHANGED copyVars

Next == CallMerge \/ CallResolveBundle

Spec == Init /\ [][Next]_vars

\* ------------------------------------------------------------------ Copy
\* A bundle c and a second bundle other; c is copied, then other or c itself
\* is merged into the copy, any number of times.
CopyInit ==
    /\ op = "init"
    /\ c \in GlobalBundles
    /\ other \in NetworkBundles
    /\ old = EmptyBundle /\ merged = FALSE
    /\ versions = NoVersions
    /\ NoBundleCall
    /\ set = EmptySet /\ version = EmptyString
    /\ NoSetCall
    /\ NoCopy

CallCopy ==
    /\ ~copied
    /\ \E res \in {Copy(c)} :
        /\ op' = "Copy"
        /\ copied' = TRUE
        /\ copyRef' = res.refs
        /\ store' = res.store
    /\ UNCHANGED <<c, old, other, merged, versions, implementations, rerr, calls>>
    /\ UNCHANGED setVars

\* copy.Merge(other) and copy.Merge(c)
CallMergeIntoCopy ==
    /\ copied
    /\ \E arg \in {other, c} : \E res \in {MergeInto(copyRef, c, store, arg)} :
        /\ op' = "MergeIntoCopy"
        /\ c' = res.c
        /\ store' = res.store
    /\ UNCHANGED <<copied, copyRef, old, other, merged, versions, implementations, rerr, calls>>
    /\ UNCHANGED setVars

CopyNext == CallCopy \/ CallMergeIntoCopy

CopySpec == CopyInit /\ [][CopyNext]_vars

\* ================================================================== claims
\* The keys of a that denote the version v, in either prefix form.
KeysFor(a, v) == {k \in DOMAIN a : canonicalizeSemver(k) = canonicalizeSemver(v)}

\* The addresses a stores for the version v.
StoredFor(a, v) == {a[k] : k \in KeysFor(a, v)}

\* Semver precedence of a stored key against a target.
Cmp(k, t) == Compare(canonicalizeSemver(k), canonicalizeSemver(t))

C2_HighestAboveWins ==
    (/\ op = "resolve"
     /\ DOMAIN set # {}
     /\ \A k \in DOMAIN set : Cmp(k, version) # 0
     /\ \E k \in DOMAIN set : Cmp(k, version) > 0) =>
        /\ err = Nil
        /\ \E k \in DOMAIN set : out.Version = canonicalizeSemver(k)
        /\ \A k \in DOMAIN set : Cmp(k, out.Version) <= 0
        /\ out.Address \in StoredFor(set, out.Version)

\* Two stored versions above the target, and the greater one is returned.
C2_Witness ==
    /\ op = "resolve" /\ err = Nil
    /\ \A k \in DOMAIN set : Cmp(k, version) # 0
    /\ \E k, j \in DOMAIN set :
          /\ Cmp(k, version) > 0 /\ Cmp(j, k) > 0
          /\ out.Version = canonicalizeSemver(j)
          /\ out.Address = set[j] /\ set[j] # set[k]

\* The set {1.0.0: A, 2.0.0: B, 3.0.0: C}, each key in either prefix form.
IsSet123(a) ==
    /\ Cardinality(DOMAIN a) = 3
    /\ \A m \in 1..3 : KeysFor(a, Ver(m, 0, 0)) # {}

AddrOf(a, v) == CHOOSE x \in StoredFor(a, v) : TRUE

\* C3 as stated: on {1.0.0: A, 2.0.0: B, 3.0.0: C} the target 1.5.0 gives
\* (2.0.0, B) and the target 0.5.0 gives (3.0.0, C).
C3_AsStated ==
    (op = "resolve" /\ IsSet123(set)) =>
        /\ (canonicalizeSemver(version) = V(Ver(1, 5, 0)) =>
               /\ err = Nil
               /\ out.Version = V(Ver(2, 0, 0))
               /\ out.Address = AddrOf(set, Ver(2, 0, 0)))
        /\ (canonicalizeSemver(version) = V(Ver(0, 5, 0)) =>
               /\ err = Nil
               /\ out.Version = V(Ver(3, 0, 0))
               /\ out.Address = AddrOf(set, Ver(3, 0, 0)))

\* C3 amended: on {1.0.0: A, 2.0.0: B, 3.0.0: C} the targets 1.5.0 and 0.5.0
\* both give (v3.0.0, C), the greatest stored version.
C3_HighestOfThree ==
    (/\ op = "resolve" /\ IsSet123(set)
     /\ canonicalizeSemver(version) \in {V(Ver(1, 5, 0)), V(Ver(0, 5, 0))}) =>
        /\ err = Nil
        /\ out.Version = V(Ver(3, 0, 0))
        /\ out.Address = AddrOf(set, Ver(3, 0, 0))

\* The three-version set with three distinct addresses, asked for 1.5.0.
C3_Witness ==
    /\ op = "resolve" /\ IsSet123(set)
    /\ Cardinality({set[k] : k \in DOMAIN set}) = 3
    /\ version = Ver(1, 5, 0)
    /\ out = [Version |-> V(Ver(3, 0, 0)), Address |-> AddrOf(set, Ver(3, 0, 0))]

\* C4. Unresolvable above ceiling: on a non-empty set resolve fails with
\* "cannot resolve semver" exactly when every stored version is strictly
\* less than the target, and succeeds when some stored version is >= it.
C4_UnresolvableAboveCeiling ==
    (op = "resolve" /\ DOMAIN set # {}) =>
        /\ (err = ErrCannotResolve) <=> (\A k \in DOMAIN set : Cmp(k, version) < 0)
        /\ (\E k \in DOMAIN set : Cmp(k, version) >= 0) => err = Nil

\* A non-empty set asked for a version above all it stores.
C4_Witness ==
    /\ op = "resolve" /\ DOMAIN set # {}
    /\ \A k \in DOMAIN set : Cmp(k, version) < 0
    /\ err = ErrCannotResolve /\ out = ZeroContract

\* C5. Empty-set failure: resolve fails with "no implementations found"
\* exactly when the set has no entries, for every target; that error is
\* not the "cannot resolve semver" error of a non-empty set.
C5_EmptySetFailure ==
    op = "resolve" =>
        /\ (DOMAIN set = {}) <=> (err = ErrNoImplementations)
        /\ (DOMAIN set = {} => err # ErrCannotResolve /\ out = ZeroContract)
        /\ (DOMAIN set # {} => err \in {Nil, ErrCannotResolve})

\* resolve on the empty set.
C5_Witness ==
    op = "resolve" /\ DOMAIN set = {} /\ err = ErrNoImplementations

\* C10. Prefix tolerance of Get: Get(x) and Get("v" + x) return the same
\* address: the one stored under x or under "v" + x, and the zero address
\* when neither is stored.
C10_PrefixTolerance ==
    op = "Get" =>
        /\ got = gotV
        /\ got \in StoredFor(set, version) \cup {ZeroAddress}
        /\ (KeysFor(set, version) = {version} => got = set[version])
        /\ (KeysFor(set, version) = {V(version)} => got = set[V(version)])
        /\ (KeysFor(set, version) = {} => got = ZeroAddress)

\* The version is stored under "v" + x only, and asked for as x.
C10_Witness ==
    /\ op = "Get" /\ KeysFor(set, version) = {V(version)}
    /\ set[V(version)] # ZeroAddress /\ got = set[V(version)] /\ gotV = got

\* The order the claims give for the seven roles.
FixedOrder == <<"L1CrossDomainMessenger", "L1ERC721Bridge", "L1StandardBridge",
                "L2OutputOracle", "OptimismMintableERC20Factory", "OptimismPortal",
                "SystemConfig">>

\* The errors resolve gives for the roles, by position in the fixed order.
RoleErrs == [i \in 1..Len(FixedOrder) |-> resolve(c[FixedOrder[i]], versions[FixedOrder[i]]).err]

\* The first position that holds an error, Len + 1 if there is none.
RECURSIVE FirstFrom(_, _)
FirstFrom(errs, i) ==
    IF i > Len(errs) \/ errs[i] # Nil THEN i ELSE FirstFrom(errs, i + 1)

\* C6. Bundle fail-fast: Resolve goes through the seven roles in the fixed
\* order; when some roles do not resolve, the error names the first of them
\* in that order and wraps its cause, resolve is called for no later role
\* and no later role gets a result.
C6_BundleFailFast ==
    op = "Resolve" =>
        \E errs \in {RoleErrs} : \E f \in {FirstFrom(errs, 1)} :
            IF f > Len(FixedOrder)
            THEN rerr = NoError /\ calls = FixedOrder
            ELSE /\ rerr = <<FixedOrder[f], errs[f]>>
                 /\ calls = SubSeq(FixedOrder, 1, f)
                 /\ \A i \in (f + 1)..Len(FixedOrder) :
                        implementations[FixedOrder[i]] = ZeroContract

\* Two roles fail for different causes, after a role that resolved; the
\* error is the first one's.
C6_Witness ==
    /\ op = "Resolve"
    /\ rerr # NoError
    /\ \E errs \in {RoleErrs} : \E i, j \in 2..Len(FixedOrder) :
          /\ i < j /\ i = FirstFrom(errs, 1)
          /\ errs[j] # Nil /\ errs[i] # errs[j]
          /\ rerr = <<FixedOrder[i], errs[i]>>

\* C7 as stated: when Resolve returns an error, the ImplementationList it
\* returns holds no resolved entry for any role.
C7_NoPartialResult ==
    (op = "Resolve" /\ rerr # NoError) => implementations = ZeroImplementations

\* C8. Merge overwrite: after c.Merge(other), for every role the keys of the
\* destination are those of the old destination and of other; a key of other
\* has other's address, a key of the old destination alone keeps its
\* address.
C8_MergeOverwrite ==
    merged =>
        \A r \in RoleSet :
            /\ DOMAIN c[r] = DOMAIN old[r] \cup DOMAIN other[r]
            /\ \A k \in DOMAIN other[r] : c[r][k] = other[r][k]
            /\ \A k \in DOMAIN old[r] \ DOMAIN other[r] : c[r][k] = old[r][k]

\* A role where other overwrites the address of one key and another key of
\* the destination survives.
C8_Witness ==
    /\ op = "Merge"
    /\ \E r \in RoleSet : \E k \in DOMAIN other[r] : \E j \in DOMAIN old[r] :
          /\ k \in DOMAIN old[r] /\ old[r][k] # other[r][k] /\ c[r][k] = other[r][k]
          /\ j \notin DOMAIN other[r] /\ c[r][j] = old[r][j]

\* C9 as stated: after the network bundle is merged into the globals, for
\* every role and every version the network holds, Get of that version, with
\* or without the "v", returns the network's address, and so does resolve.
C9_NetworkWins ==
    merged =>
        \A r \in RoleSet : \A k \in DOMAIN other[r] :
            /\ Get(c[r], canonicalizeSemver(k)) = other[r][k]
            /\ Get(c[r], TrimPrefixV(canonicalizeSemver(k))) = other[r][k]
            /\ resolve(c[r], k).out =
                   [Version |-> canonicalizeSemver(k), Address |-> other[r][k]]

\* C11. Clone independence: Copy returns a bundle whose seven sets hold the
\* entries of the source, and once the copy is made no Merge into it changes
\* a set of the source; Merge leaves its argument bundle unchanged.
C11_CloneIndependence ==
    /\ [](op = "Copy" => Deref(copyRef, c, store) = c)
    /\ [][copied => (c' = c /\ other' = other)]_vars

\* After a Merge into the copy a set of the copy holds an address the
\* source's set does not hold for that key.
C11_Witness ==
    /\ op = "MergeIntoCopy"
    /\ \E r \in RoleSet : \E k \in DOMAIN c[r] :
          /\ k \in DOMAIN other[r]
          /\ c[r][k] # other[r][k]
          /\ Deref(copyRef, c, store)[r][k] = other[r][k]

====
